---------------------------- MODULE Spec2Model ----------------------------
(***************************************************************************)
(* BrainBox: the SpikerBox streaming / decode / classification pipeline.   *)
(*                                                                         *)
(*   Spec        SpikerBox.process_input polled by a caller, over the      *)
(*               three input streams (src/Game/spikerbox.py)               *)
(*   SpecLive    Spec with polls of positive elapsed time arriving forever *)
(*   SpecReplayLive  SpecLive over every replay source of the bounds       *)
(*   SpecDecode  the loop of SpikerStream.process_data on a byte buffer    *)
(*   SpecDecodeFair  SpecDecode with the loop kept running to its return   *)
(*   SpecReplay  ArrayStream.update and WAVStream.update over one array    *)
(*   SpecDevice  a SpikerStream on its serial port: update() and close()   *)
(*   SpecGame    a Game session: Game.__init__, then Game.update() frame   *)
(*               by frame until sys.exit() (src/Game/game.py)              *)
(*   SpecConstruct  SpikerBox.__init__ statement by statement, then polls  *)
(*   SpecWindow  Spec with the samples pulled so far kept in `history`     *)
(*   SpecRead    the two SpikerStream classes: __init__(chunk), update()   *)
(*   SpecSaver   the recorder of SpikerStreamPython/saver.py: main()       *)
(*   SpecSteady  Spec over a replay array long enough never to wrap, so    *)
(*               that every pull returns a full slice                      *)
(*   SpecNormalise  normalise_signal applied to one signal                 *)
(*                                                                         *)
(* Sizes are scaled down: the program's buffer_size is 14998 samples and   *)
(* its chunks are 4999 samples; here they are drawn from small ranges.     *)
(* Time is counted in the milliseconds of `tick`; buffer_time is held in   *)
(* milliseconds, so `buffer_timer / 1000.0 < buffer_time` is               *)
(* `buffer_timer < buffer_time`.                                           *)
(***************************************************************************)
EXTENDS Integers, Sequences, FiniteSets, TLC

VARIABLES
    stream_type,    \* which InputStream SpikerBox.__init__ built
    chunk,          \* stream.chunk
    buffer_time,    \* stream.buffer_time, in milliseconds
    array,          \* ArrayStream.array / WAVStream.array
    pointer,        \* ArrayStream.pointer / WAVStream.pointer
    buffer_is_none, \* SpikerBox.buffer is None
    buffer,         \* SpikerBox.buffer (the window) when it is not None
    buffer_size,    \* SpikerBox.buffer_size
    buffer_timer,   \* SpikerBox.buffer_timer
    controls,       \* the control state returned by the last poll
    poll,           \* what the last call of process_input did
    data,           \* process_data: its argument
    i,              \* process_data: the loop index (0-based, as in the code)
    result,         \* process_data: the samples collected so far
    pc,             \* process_data: "loop" or "done"
    replay,         \* an ArrayStream and a WAVStream replaying the same array
    device,         \* a SpikerStream and the serial port it holds
    game,           \* the Game object of a session
    ctor,           \* a call of SpikerBox.__init__ and where it stands
    norm,           \* a call of normalise_signal: its argument and its result
    history,        \* every sample the pipeline's stream has returned so far
    window_lens,    \* the length of the window after each pull so far
    save_array      \* saver.py: the array the recording loop builds

streamVars == <<stream_type, chunk, buffer_time, array, pointer>>
boxVars    == <<buffer_is_none, buffer, buffer_size, buffer_timer, controls, poll>>
decVars    == <<data, i, result, pc>>
sessVars   == <<replay, device, game>>
obsVars    == <<window_lens, save_array>>
auxVars    == <<ctor, norm, history, obsVars>>
vars       == <<streamVars, boxVars, decVars, sessVars, auxVars>>

-----------------------------------------------------------------------------
(* Bounds of the model *)

MaxChunk      == 3   \* stream.chunk ranges over 1..MaxChunk
MaxBufferSize == 2   \* buffer_size ranges over 1..MaxBufferSize
MaxBufferTime == 2   \* buffer_time, in ms
MaxTick       == 2   \* elapsed time of one poll, 0..MaxTick (ms)
MaxArrayLen   == 3   \* length of a replay array, 0..MaxArrayLen
MaxLen        == 6   \* length of a buffer handed to process_data: room for
                     \* two frames with a byte between them
MaxReplayLen   == 25 \* SpecReplay: length of the replayed array, 0..MaxReplayLen
MaxReplayChunk == 10 \* SpecReplay: slice length, 1..MaxReplayChunk
MaxUpdates     == 5  \* SpecReplay: update() calls made on each stream
MaxPending     == 3  \* SpecDevice: bytes the serial port holds unread
MaxEvents      == 1  \* SpecGame: events pygame.event.get() returns in a frame
MaxPlayerHp    == 2  \* SpecGame: Entity.PLAYER_HP, scaled down from 100
MaxHits        == 2  \* SpecGame: enemies overlapping the player in one frame
MaxSignalLen   == 4  \* SpecNormalise: length of the signal, 1..MaxSignalLen
MaxHistory     == 6  \* SpecWindow: samples pulled before the caller stops
MaxChunkArg    == 8  \* SpecRead: the chunk argument of __init__, 2..MaxChunkArg
MaxPulls       == 5  \* SpecSteady: pulls made before the caller stops
MaxRecorded    == 3  \* SpecSaver: update() calls before the recording time is up

\* byte values a buffer handed to process_data is built from
Bytes == {0, 5, 127, 128, 129, 255}
\* byte values the serial port delivers to the polled pipeline
SerialBytes == {5, 129}
\* sample values of a signal handed to normalise_signal
SignalSamples == {-2, 0, 1, 3}

-----------------------------------------------------------------------------
(* src/Game/constants.py *)

CONTROL_LEFT  == "LEFT"
CONTROL_RIGHT == "RIGHT"
CONTROL_SHOOT == "SHOOT"

SPIKERSTREAM == "SpikerStream"
ARRAYSTREAM  == "ArrayStream"
WAVSTREAM    == "WAVStream"

\* the classes a pretrained model predicts; "blink" stands for any label
\* that is neither "left", "right" nor "noise"
Labels == {"left", "right", "noise", "blink"}

ControlStates == [LEFT : {0, 1}, RIGHT : {0, 1}, SHOOT : {0, 1}]

-----------------------------------------------------------------------------
(* Python sequence helpers *)

Min(a, b) == IF a < b THEN a ELSE b

\* s[k] with the code's 0-based index
At(s, k) == s[k + 1]

\* s[a:b] for 0 <= a
py_slice(s, a, b) == SubSeq(s, a + 1, Min(b, Len(s)))

\* s[k:] for 0 <= k
py_slice_from(s, k) == SubSeq(s, k + 1, Len(s))

\* all sequences over S of length 0..n
SeqsUpTo(S, n) == UNION {[1..m -> S] : m \in 0..n}

\* np.bitwise_and on non-negative integers
RECURSIVE bitwise_and(_, _)
bitwise_and(a, b) ==
    IF a = 0 \/ b = 0 THEN 0
    ELSE (a % 2) * (b % 2) + 2 * bitwise_and(a \div 2, b \div 2)

-----------------------------------------------------------------------------
(* SpikerStream.process_data *)

\* mutant: the loop stops one byte early
process_data_guard_early(d, k) == k < Len(d) - 2

\* the loop condition, line 205
process_data_guard(d, k) == k < Len(d) - 1

\* mutant: the marker test also takes 127 for a marker
is_frame_start_from_127(byte) == byte >= 127

\* the marker test, line 207
is_frame_start(byte) == byte > 127

\* mutant: the marker bit is not cleared (np.bitwise_and of line 209 missing)
process_data_step_no_mask(d, k, res) ==
    IF is_frame_start(At(d, k))
    THEN [i |-> k + 2, result |-> Append(res, At(d, k) * 128 + At(d, k + 1))]
    ELSE [i |-> k + 1, result |-> res]

\* mutant: a marker followed by another marker is dropped and the scan
\* resumes at the second one
process_data_step_resync(d, k, res) ==
    IF is_frame_start(At(d, k)) /\ ~is_frame_start(At(d, k + 1))
    THEN [i |-> k + 2,
          result |-> Append(res, bitwise_and(At(d, k), 127) * 128 + At(d, k + 1))]
    ELSE [i |-> k + 1, result |-> res]

\* mutant: the low byte of a frame is not skipped (line 210 missing)
process_data_step_no_skip(d, k, res) ==
    IF is_frame_start(At(d, k))
    THEN [i |-> k + 1,
          result |-> Append(res, bitwise_and(At(d, k), 127) * 128 + At(d, k + 1))]
    ELSE [i |-> k + 1, result |-> res]

\* one iteration of the loop body, lines 207-213
process_data_step(d, k, res) ==
    IF is_frame_start(At(d, k))
    THEN [i |-> k + 2,
          result |-> Append(res, bitwise_and(At(d, k), 127) * 128 + At(d, k + 1))]
    ELSE [i |-> k + 1, result |-> res]

RECURSIVE process_data_loop(_, _, _)
process_data_loop(d, k, res) ==
    IF process_data_guard(d, k)
    THEN LET s == process_data_step(d, k, res)
         IN process_data_loop(d, s.i, s.result)
    ELSE res

\* the index the loop starts at, line 204
process_data_first == 1

process_data(d) == process_data_loop(d, process_data_first, <<>>)


-----------------------------------------------------------------------------
(* The input streams *)

\* SpikerStream.read_arduino: serial_handle.read(chunk) returns, within the
\* read timeout, any number of bytes from 0 to chunk
read_arduino(n) == SeqsUpTo(SerialBytes, n)

\* SpikerStream.update: the chunks one call can return (`notice` is whether
\* the call printed "Restarting stream...", which only replay streams do)
SpikerStream_update(n) ==
    {[raw_data |-> process_data(bytes), pointer |-> 0, notice |-> FALSE] :
        bytes \in read_arduino(n)}

\* mutant: the pointer wraps as soon as it reaches the array length
past_end_inclusive(p, arr) == p >= Len(arr)

\* the wrap test of the replay streams, lines 250 and 298
past_end(p, arr) == p > Len(arr)

\* mutant: the wrap test of line 250 looks at the pointer before it advances
ArrayStream_update_test_first(arr, p, n) ==
    {[raw_data |-> py_slice(arr, p, p + n),
      pointer  |-> IF past_end(p, arr) THEN 0 ELSE p + n,
      notice   |-> past_end(p, arr)]}

\* mutant: the slice of line 248 ends one sample early
ArrayStream_update_short(arr, p, n) ==
    {[raw_data |-> py_slice(arr, p, p + n - 1),
      pointer  |-> IF past_end(p + n, arr) THEN 0 ELSE p + n,
      notice   |-> past_end(p + n, arr)]}

\* mutant: the pointer wraps to its overshoot rather than to 0
ArrayStream_update_modular(arr, p, n) ==
    {[raw_data |-> py_slice(arr, p, p + n),
      pointer  |-> IF past_end(p + n, arr) THEN p + n - Len(arr) ELSE p + n,
      notice   |-> past_end(p + n, arr)]}

\* ArrayStream.update
ArrayStream_update(arr, p, n) ==
    {[raw_data |-> py_slice(arr, p, p + n),
      pointer  |-> IF past_end(p + n, arr) THEN 0 ELSE p + n,
      notice   |-> past_end(p + n, arr)]}

\* mutant: WAVStream alone wraps as soon as the pointer reaches the end
WAVStream_update_wrap_at_end(arr, p, n) ==
    {[raw_data |-> py_slice(arr, p, p + n),
      pointer  |-> IF p + n >= Len(arr) THEN 0 ELSE p + n,
      notice   |-> p + n >= Len(arr)]}

\* WAVStream.update
WAVStream_update(arr, p, n) ==
    {[raw_data |-> py_slice(arr, p, p + n),
      pointer  |-> IF past_end(p + n, arr) THEN 0 ELSE p + n,
      notice   |-> past_end(p + n, arr)]}

\* self.stream.update() for the stream SpikerBox holds
stream_update ==
    CASE stream_type = SPIKERSTREAM -> SpikerStream_update(chunk)
      [] stream_type = ARRAYSTREAM  -> ArrayStream_update(array, pointer, chunk)
      [] stream_type = WAVSTREAM    -> WAVStream_update(array, pointer, chunk)

\* the largest number of samples one update() of the stream returns:
\* a device read of n bytes decodes to at most (n - 1) \div 2 samples,
\* a replay slice holds at most chunk samples
chunk_length ==
    IF stream_type = SPIKERSTREAM
    THEN (IF chunk >= 1 THEN (chunk - 1) \div 2 ELSE 0)
    ELSE Min(chunk, Len(array))

-----------------------------------------------------------------------------
(* SpikerBox.process_input *)

\* mutant: the gate opens only when the timer equals buffer_time
gate_closed_unless_equal(timer, bt) == timer # bt

\* mutant: the gate stays closed when the timer equals buffer_time
gate_closed_inclusive(timer, bt) == timer <= bt

\* the timer gate, line 44 (both sides in milliseconds)
gate_closed(timer, bt) == timer < bt

\* mutant: the time beyond the threshold is carried into the next interval
timer_after_pull_carry(timer) == timer - buffer_time

\* the value of buffer_timer after a pull, line 47
timer_after_pull(timer) == 0

\* mutant: the window is reduced on every pull
needs_trim_always(buf, size) == TRUE

\* mutant: the comparison of line 54 reversed
needs_trim_reversed(buf, size) == Len(buf) < size

\* whether the window is reduced before the chunk is appended, line 54
needs_trim(buf, size) == Len(buf) > size

\* mutant: the reduction drops the newest samples, buffer[:-(len(raw_data) + 1)]
trim_front_from_back(buf, raw_data) ==
    SubSeq(buf, 1, Len(buf) - Min(Len(buf), Len(raw_data) + 1))

\* mutant: the reduction drops len(raw_data) samples, without the + 1
trim_front_no_extra(buf, raw_data) == py_slice_from(buf, Len(raw_data))

\* the reduction, line 56
trim_front(buf, raw_data) == py_slice_from(buf, Len(raw_data) + 1)

\* mutant: the chunk is appended first and the front is dropped afterwards
fill_buffer_append_first(is_none, buf, size, raw_data) ==
    IF is_none
    THEN raw_data
    ELSE LET joined == buf \o raw_data
         IN  IF needs_trim(joined, size) THEN trim_front(joined, raw_data)
             ELSE joined

\* the window after the fill step, lines 51-57
fill_buffer(is_none, buf, size, raw_data) ==
    IF is_none
    THEN raw_data
    ELSE (IF needs_trim(buf, size) THEN trim_front(buf, raw_data) ELSE buf)
             \o raw_data

\* mutant: the readiness test accepts a window of exactly buffer_size
window_ready_inclusive(buf, size) == Len(buf) >= size

\* mutant: the readiness test asks for one sample more
window_ready_late(buf, size) == Len(buf) > size + 1

\* the readiness test, line 59
window_ready(buf, size) == Len(buf) > size

\* mutant: RIGHT is set for every label that is not "left"
map_controls_right_default(c, label) ==
    [c EXCEPT !.LEFT  = IF label = "left" THEN 1 ELSE 0,
              !.RIGHT = IF label # "left" THEN 1 ELSE 0]

\* mutant: LEFT is set for every label that is not "right"
map_controls_left_default(c, label) ==
    [c EXCEPT !.LEFT  = IF label # "right" THEN 1 ELSE 0,
              !.RIGHT = IF label = "right" THEN 1 ELSE 0]

\* mutant: the flags are set but never cleared
map_controls_sticky(c, label) ==
    [c EXCEPT !.LEFT  = IF label = "left" THEN 1 ELSE @,
              !.RIGHT = IF label = "right" THEN 1 ELSE @]

\* mutant: line 75 is live, SHOOT follows the label
map_controls_shoot(c, label) ==
    [c EXCEPT !.LEFT  = IF label = "left" THEN 1 ELSE 0,
              !.RIGHT = IF label = "right" THEN 1 ELSE 0,
              !.SHOOT = IF label = "blink" THEN 1 ELSE 0]

\* the label-to-control mapping, lines 73-76
map_controls(c, label) ==
    [c EXCEPT !.LEFT  = IF label = "left" THEN 1 ELSE 0,
              !.RIGHT = IF label = "right" THEN 1 ELSE 0]

\* mutant: a gated poll clears the direction flags
gated_controls_cleared(c) == [c EXCEPT !.LEFT = 0, !.RIGHT = 0]

\* the control state a gated poll returns, line 45
gated_controls(c) == c

\* what the previous polls accumulated since the last pull (observer)
elapsed_since_pull == IF poll.pulls > 0 THEN 0 ELSE poll.acc

process_input(controls_in, tick) ==
    LET timer == buffer_timer + tick
        acc   == elapsed_since_pull + tick
    IN  \/ /\ gate_closed(timer, buffer_time)
           /\ buffer_timer' = timer
           /\ controls' = gated_controls(controls_in)
           /\ poll' = [polled |-> TRUE, acc |-> acc,
                       controls_in |-> controls_in, pulls |-> 0, predicts |-> 0,
                       label |-> "none", raw_len |-> 0, was_none |-> buffer_is_none,
                       trimmed |-> FALSE, kept_len |-> Len(buffer)]
           /\ UNCHANGED <<buffer_is_none, buffer, buffer_size, streamVars>>
        \/ /\ ~gate_closed(timer, buffer_time)
           /\ buffer_timer' = timer_after_pull(timer)
           /\ \E u \in stream_update :
              LET raw_data == u.raw_data
                  trimmed  == ~buffer_is_none /\ needs_trim(buffer, buffer_size)
                  window   == fill_buffer(buffer_is_none, buffer, buffer_size, raw_data)
                  ready    == window_ready(window, buffer_size)
              IN  \E predicted \in (IF ready THEN Labels ELSE {"noise"}) :
                    /\ pointer' = u.pointer
                    /\ buffer_is_none' = FALSE
                    /\ buffer' = window
                    /\ controls' = map_controls(controls_in, predicted)
                    /\ poll' = [polled |-> TRUE, acc |-> acc,
                                controls_in |-> controls_in, pulls |-> 1,
                                predicts |-> IF ready THEN 1 ELSE 0,
                                label |-> predicted, raw_len |-> Len(raw_data),
                                was_none |-> buffer_is_none, trimmed |-> trimmed,
                                kept_len |-> Len(window) - Len(raw_data)]
           /\ UNCHANGED <<buffer_size, stream_type, chunk, buffer_time, array>>

-----------------------------------------------------------------------------
(* Spec: a caller polling SpikerBox.process_input *)

NoPoll == [polled |-> FALSE, acc |-> 0,
           controls_in |-> [LEFT |-> 0, RIGHT |-> 0, SHOOT |-> 0],
           pulls |-> 0, predicts |-> 0, label |-> "none", raw_len |-> 0,
           was_none |-> TRUE, trimmed |-> FALSE, kept_len |-> 0]

\* the decoder's variables while the pipeline runs
DecIdle == data = <<>> /\ i = 0 /\ result = <<>> /\ pc = "idle"

\* a replay stream after __init__ (pointer 0) and before any update():
\* its pointer, the number of update() calls and of restart notices so far,
\* the notices of the last call, the slice it returned, the pointer before
\* it, and the concatenation of all slices returned
NewStream == [pointer |-> 0, updates |-> 0, restarts |-> 0, notices |-> 0,
              array_slice |-> <<>>, prev_pointer |-> 0, emitted |-> <<>>]

ReplayIdle == replay = [A |-> NewStream, W |-> NewStream]
DeviceIdle == device = [is_open |-> FALSE]
GameIdle   == game = [status |-> "none"]

CtorIdle    == ctor = [pc |-> "none"]
NormIdle    == norm = [called |-> FALSE]
HistoryIdle == history = <<>>
ObsIdle     == window_lens = <<>> /\ save_array = <<>>
AuxIdle     == CtorIdle /\ NormIdle /\ HistoryIdle /\ ObsIdle

\* the variables of the other specifications
SessIdle == ReplayIdle /\ DeviceIdle /\ GameIdle

\* the replay arrays: n distinct samples 1..n
ReplayArray(n) == [k \in 1..n |-> k]

\* SpikerBox.__init__
Init ==
    /\ stream_type \in {SPIKERSTREAM, ARRAYSTREAM, WAVSTREAM}
    /\ chunk \in 1..MaxChunk
    /\ buffer_time = MaxBufferTime
    /\ \E n \in 0..MaxArrayLen :
          array = IF stream_type = SPIKERSTREAM THEN <<>> ELSE ReplayArray(n)
    /\ pointer = 0
    /\ buffer_is_none = TRUE
    /\ buffer = <<>>
    /\ buffer_size \in 1..MaxBufferSize
    /\ buffer_timer = 0
    /\ controls = [LEFT |-> 0, RIGHT |-> 0, SHOOT |-> 0]
    /\ poll = NoPoll
    /\ DecIdle
    /\ SessIdle
    /\ AuxIdle

Next ==
    \E controls_in \in ControlStates, tick \in 0..MaxTick :
        /\ process_input(controls_in, tick)
        /\ UNCHANGED <<decVars, sessVars, auxVars>>

Spec == Init /\ [][Next]_vars

-----------------------------------------------------------------------------
(* SpecLive: the caller of Spec, with polls of positive elapsed time       *)
(* arriving for ever (Game.update hands the frame time to every poll).     *)
(* The time since the last pull is followed up to MaxElapsed, which a poll *)
(* of the program never reaches: the gate opens at buffer_time.            *)

MaxElapsed == MaxBufferTime + MaxTick

\* SpikerBox.__init__ with the largest chunk, window and replay array
InitLive ==
    /\ stream_type \in {SPIKERSTREAM, ARRAYSTREAM, WAVSTREAM}
    /\ chunk = MaxChunk
    /\ buffer_time = MaxBufferTime
    /\ array = IF stream_type = SPIKERSTREAM THEN <<>>
               ELSE ReplayArray(MaxArrayLen)
    /\ pointer = 0
    /\ buffer_is_none = TRUE
    /\ buffer = <<>>
    /\ buffer_size = MaxBufferSize
    /\ buffer_timer = 0
    /\ controls = [LEFT |-> 0, RIGHT |-> 0, SHOOT |-> 0]
    /\ poll = NoPoll
    /\ DecIdle
    /\ SessIdle
    /\ AuxIdle

\* the control states the caller hands in: Game hands back the state the
\* last poll returned (game.py line 163), as move_entities left it
LiveInputs == {controls, [controls EXCEPT !.LEFT = 0, !.RIGHT = 0]}

\* a poll that arrives with no time elapsed
PollZero ==
    /\ \E controls_in \in LiveInputs : process_input(controls_in, 0)
    /\ UNCHANGED <<decVars, sessVars, auxVars>>

\* a poll that arrives after some time has elapsed
PollPositive ==
    /\ \E controls_in \in LiveInputs, tick \in 1..MaxTick :
          /\ elapsed_since_pull + tick <= MaxElapsed
          /\ process_input(controls_in, tick)
    /\ UNCHANGED <<decVars, sessVars, auxVars>>

NextLive == PollZero \/ PollPositive

SpecLive == InitLive /\ [][NextLive]_vars /\ WF_vars(PollPositive)

\* SpikerBox.__init__ with a replay stream over a non-empty array
InitReplayLive ==
    /\ stream_type \in {ARRAYSTREAM, WAVSTREAM}
    /\ chunk \in 1..MaxChunk
    /\ buffer_time = MaxBufferTime
    /\ \E n \in 1..MaxArrayLen : array = ReplayArray(n)
    /\ pointer = 0
    /\ buffer_is_none = TRUE
    /\ buffer = <<>>
    /\ buffer_size \in 1..MaxBufferSize
    /\ buffer_timer = 0
    /\ controls = [LEFT |-> 0, RIGHT |-> 0, SHOOT |-> 0]
    /\ poll = NoPoll
    /\ DecIdle
    /\ SessIdle
    /\ AuxIdle

SpecReplayLive == InitReplayLive /\ [][NextLive]_vars /\ WF_vars(PollPositive)

-----------------------------------------------------------------------------
(* SpecDecode: SpikerStream.process_data run on one byte buffer *)

\* the pipeline's variables while the decoder runs
BoxIdle ==
    /\ stream_type = SPIKERSTREAM /\ chunk = MaxChunk /\ buffer_time = MaxBufferTime
    /\ array = <<>> /\ pointer = 0
    /\ buffer_is_none = TRUE /\ buffer = <<>> /\ buffer_size = MaxBufferSize
    /\ buffer_timer = 0
    /\ controls = [LEFT |-> 0, RIGHT |-> 0, SHOOT |-> 0]
    /\ poll = NoPoll

\* process_data is entered with any buffer; lines 203-204 have run
InitDecode ==
    /\ data \in SeqsUpTo(Bytes, MaxLen)
    /\ i = process_data_first
    /\ result = <<>>
    /\ pc = "loop"
    /\ BoxIdle
    /\ SessIdle
    /\ AuxIdle

\* one pass through the while loop, lines 205-213
process_data_iterate ==
    /\ pc = "loop"
    /\ process_data_guard(data, i)
    /\ LET s == process_data_step(data, i, result)
       IN  i' = s.i /\ result' = s.result
    /\ UNCHANGED <<data, pc, streamVars, boxVars, sessVars, auxVars>>

\* the loop condition fails and the result is returned, line 214
process_data_return ==
    /\ pc = "loop"
    /\ ~process_data_guard(data, i)
    /\ pc' = "done"
    /\ UNCHANGED <<data, i, result, streamVars, boxVars, sessVars, auxVars>>

NextDecode == process_data_iterate \/ process_data_return

SpecDecode == InitDecode /\ [][NextDecode]_vars

\* the same run with the interpreter going on to the next statement for as
\* long as there is one
SpecDecodeFair == SpecDecode /\ WF_vars(NextDecode)

\* the loop and the operator the streams use are the same function
DecodeLoopIsOperator == pc = "done" => result = process_data(data)

-----------------------------------------------------------------------------
(* SpecReplay: an ArrayStream and a WAVStream over the same array and with *)
(* the same slice length, each updated by its own caller                   *)

\* the stream record after one update() whose outcome is u
after_update(st, u) ==
    [pointer      |-> u.pointer,
     updates      |-> st.updates + 1,
     restarts     |-> st.restarts + (IF u.notice THEN 1 ELSE 0),
     notices      |-> IF u.notice THEN 1 ELSE 0,
     array_slice  |-> u.raw_data,
     prev_pointer |-> st.pointer,
     emitted      |-> st.emitted \o u.raw_data]

\* ArrayStream.__init__ and WAVStream.__init__ on the same samples
InitReplay ==
    /\ stream_type = ARRAYSTREAM
    /\ chunk \in 1..MaxReplayChunk
    /\ buffer_time = MaxBufferTime
    /\ \E n \in 0..MaxReplayLen : array = ReplayArray(n)
    /\ pointer = 0
    /\ buffer_is_none = TRUE /\ buffer = <<>> /\ buffer_size = MaxBufferSize
    /\ buffer_timer = 0
    /\ controls = [LEFT |-> 0, RIGHT |-> 0, SHOOT |-> 0]
    /\ poll = NoPoll
    /\ DecIdle
    /\ ReplayIdle /\ DeviceIdle /\ GameIdle
    /\ AuxIdle

\* one call of ArrayStream.update()
ArrayStream_call ==
    /\ replay.A.updates < MaxUpdates
    /\ \E u \in ArrayStream_update(array, replay.A.pointer, chunk) :
          replay' = [replay EXCEPT !.A = after_update(@, u)]
    /\ UNCHANGED <<streamVars, boxVars, decVars, device, game, auxVars>>

\* one call of WAVStream.update()
WAVStream_call ==
    /\ replay.W.updates < MaxUpdates
    /\ \E u \in WAVStream_update(array, replay.W.pointer, chunk) :
          replay' = [replay EXCEPT !.W = after_update(@, u)]
    /\ UNCHANGED <<streamVars, boxVars, decVars, device, game, auxVars>>

NextReplay == ArrayStream_call \/ WAVStream_call

SpecReplay == InitReplay /\ [][NextReplay]_vars

-----------------------------------------------------------------------------
(* SpecDevice: a SpikerStream and the serial port it holds.  The port is   *)
(* its open flag and the bytes received and not yet read; a read takes the *)
(* bytes that have arrived by the time it returns, so a read that times    *)
(* out is a read of an empty (or short) input buffer.                      *)

\* serial_handle.read(n): the bytes returned and the bytes left unread
serial_read(pending, n) ==
    [bytes |-> SubSeq(pending, 1, Min(n, Len(pending))),
     rest  |-> SubSeq(pending, Min(n, Len(pending)) + 1, Len(pending))]

\* SpikerStream.__init__ with a port that opens
InitDevice ==
    /\ stream_type = SPIKERSTREAM
    /\ chunk \in 1..MaxChunk
    /\ buffer_time = MaxBufferTime
    /\ array = <<>> /\ pointer = 0
    /\ buffer_is_none = TRUE /\ buffer = <<>> /\ buffer_size = MaxBufferSize
    /\ buffer_timer = 0
    /\ controls = [LEFT |-> 0, RIGHT |-> 0, SHOOT |-> 0]
    /\ poll = NoPoll
    /\ DecIdle
    /\ ReplayIdle /\ GameIdle
    /\ AuxIdle
    /\ device = [is_open |-> TRUE, in_waiting |-> <<>>, flushed |-> FALSE,
                 close_returned |-> FALSE, raw_data |-> <<>>]

\* the SpikerBox sends one byte, which the open port buffers
serial_receive ==
    /\ device.is_open
    /\ Len(device.in_waiting) < MaxPending
    /\ \E b \in SerialBytes :
          device' = [device EXCEPT !.in_waiting = Append(@, b)]
    /\ UNCHANGED <<streamVars, boxVars, decVars, replay, game, auxVars>>

\* SpikerStream.update(): read_arduino, then process_data
SpikerStream_update_call ==
    /\ device.is_open /\ ~device.close_returned
    /\ LET r == serial_read(device.in_waiting, chunk)
       IN  device' = [device EXCEPT !.in_waiting = r.rest,
                                    !.raw_data = process_data(r.bytes)]
    /\ UNCHANGED <<streamVars, boxVars, decVars, replay, game, auxVars>>

\* whether close() goes on to flush and close, lines 173-176
close_proceeds(bytes) == bytes # <<>>

\* SpikerStream.close()
SpikerStream_close ==
    /\ device.is_open /\ ~device.close_returned
    /\ LET r == serial_read(device.in_waiting, 1)
       IN  IF close_proceeds(r.bytes)
           THEN device' = [device EXCEPT !.in_waiting = <<>>,
                                         !.flushed = TRUE,
                                         !.is_open = FALSE,
                                         !.close_returned = TRUE]
           ELSE device' = [device EXCEPT !.in_waiting = r.rest,
                                         !.close_returned = TRUE]
    /\ UNCHANGED <<streamVars, boxVars, decVars, replay, game, auxVars>>

NextDevice == serial_receive \/ SpikerStream_update_call \/ SpikerStream_close

SpecDevice == InitDevice /\ [][NextDevice]_vars

-----------------------------------------------------------------------------
(* SpecGame: a Game session.  Game.update() is followed method by method:  *)
(* game.step is the method that runs next.  Enemies and projectiles are    *)
(* left out: handle_collision finds some number of enemies on the player.  *)

\* Game.WIDTH
WIDTH == 74
\* Game.PLAYER_LANE_OFFSET
PLAYER_LANE_OFFSET == 25
\* Entity.spawn_position[Entity.PLAYER_SPAWN][0] = 6 + 25
PLAYER_SPAWN_X == 31

\* the events of a frame: pygame.QUIT and the KEYDOWN keys the game reads
Events == {"QUIT", "K_ESCAPE", "K_LEFT", "K_RIGHT", "K_SPACE", "K_F11", "K_F10"}

\* mutant: the dispatch of line 114 looks at the keyboard flag alone
use_keyboard_flag_only(keyboard, spikerbox) == keyboard

\* which handler Game.process_input calls, line 114
use_keyboard(keyboard, spikerbox) == keyboard \/ spikerbox = "none"

\* Game.process_input_keyboard, lines 121-143, on the events left;
\* st is [controls, keyboard, exited]
RECURSIVE process_input_keyboard(_, _)
process_input_keyboard(evs, st) ==
    IF evs = <<>> THEN st
    ELSE LET ev == Head(evs) IN
         IF ev \in {"QUIT", "K_ESCAPE"}
         THEN [st EXCEPT !.exited = TRUE]
         ELSE process_input_keyboard(Tail(evs),
                 CASE ev = "K_LEFT"  -> [st EXCEPT !.controls.LEFT = 1]
                   [] ev = "K_RIGHT" -> [st EXCEPT !.controls.RIGHT = 1]
                   [] ev = "K_SPACE" -> [st EXCEPT !.controls.SHOOT = 1]
                   [] ev = "K_F10"   -> [st EXCEPT !.keyboard = FALSE]
                   [] OTHER          -> st)

\* the event loop of Game.process_input_spikerbox, lines 147-161
RECURSIVE process_events_spikerbox(_, _)
process_events_spikerbox(evs, st) ==
    IF evs = <<>> THEN st
    ELSE LET ev == Head(evs) IN
         IF ev \in {"QUIT", "K_ESCAPE"}
         THEN [st EXCEPT !.exited = TRUE]
         ELSE process_events_spikerbox(Tail(evs),
                 IF ev = "K_F10" THEN [st EXCEPT !.keyboard = TRUE] ELSE st)

\* how the stream dispatch of SpikerBox.__init__, lines 25-35, ends: with a
\* stream built, with an exception raised, or with sys.exit().  port_ok:
\* the serial port cport opens; file_ok: stream_file names a file that
\* np.load (ArrayStream.__init__) and wave.open (WAVStream.__init__) can
\* open.  The default stream_file "" is not such a file.
stream_outcome(stream_arg, port_ok, file_ok) ==
    CASE stream_arg = SPIKERSTREAM ->
             IF port_ok THEN "stream" ELSE "SerialException"
      [] stream_arg \in {ARRAYSTREAM, WAVSTREAM} ->
             IF file_ok THEN "stream" ELSE "FileNotFoundError"
      [] stream_arg = "None" -> "SerialException"
      [] OTHER -> "SystemExit"

\* SpikerBox.__init__ as Game.__init__ calls it, line 66 (main.py only lets
\* the keys of MODELS through as model_type): it returns an object when the
\* stream is built
SpikerBox_constructed(st, port_ok, file_ok) ==
    stream_outcome(st, port_ok, file_ok) = "stream"

\* Game.__init__, lines 65-69: SerialException is caught and the session
\* goes on without a SpikerBox; any other exception leaves Game.__init__
\* and main(), and there is no Game
Game_init_raises(st, port_ok, file_ok) ==
    stream_outcome(st, port_ok, file_ok) \notin {"stream", "SerialException"}

\* main() and Game.__init__
InitGame ==
    \E st \in {SPIKERSTREAM, ARRAYSTREAM, WAVSTREAM, "None"},
       port_ok \in BOOLEAN, file_ok \in BOOLEAN :
        /\ IF SpikerBox_constructed(st, port_ok, file_ok)
           THEN /\ stream_type = st
                /\ chunk = MaxChunk
                /\ array = IF st = SPIKERSTREAM THEN <<>>
                           ELSE ReplayArray(MaxArrayLen)
                /\ device = IF st = SPIKERSTREAM
                            THEN [is_open |-> TRUE, in_waiting |-> <<>>,
                                  flushed |-> FALSE, close_returned |-> FALSE,
                                  raw_data |-> <<>>]
                            ELSE [is_open |-> FALSE]
           ELSE /\ stream_type = SPIKERSTREAM /\ chunk = MaxChunk /\ array = <<>>
                /\ DeviceIdle
        /\ buffer_time = MaxBufferTime
        /\ pointer = 0
        /\ buffer_is_none = TRUE /\ buffer = <<>> /\ buffer_size = MaxBufferSize
        /\ buffer_timer = 0
        /\ controls = [LEFT |-> 0, RIGHT |-> 0, SHOOT |-> 0]
        /\ poll = NoPoll
        /\ DecIdle
        /\ ReplayIdle
        /\ AuxIdle
        /\ game = [status     |-> IF Game_init_raises(st, port_ok, file_ok)
                                  THEN "raised" ELSE "running",
                   step       |-> "tick",
                   stream_arg |-> st,
                   keyboard   |-> (st = "None"),
                   spikerbox  |-> CASE SpikerBox_constructed(st, port_ok, file_ok)
                                         -> "object"
                                    [] Game_init_raises(st, port_ok, file_ok)
                                         -> "unset"
                                    [] OTHER -> "none",
                   tick       |-> 0,
                   player_x   |-> PLAYER_SPAWN_X,
                   player_hp  |-> MaxPlayerHp,
                   last_input |-> "none",
                   flag_at_input |-> (st = "None")]

gameFrame == <<decVars, replay, device, auxVars>>

\* Game.update, lines 74-76: the frame time is read (enemy spawning left out)
Game_tick ==
    /\ game.status = "running" /\ game.step = "tick"
    /\ \E t \in 0..MaxTick : game' = [game EXCEPT !.tick = t, !.step = "input"]
    /\ UNCHANGED <<streamVars, boxVars, gameFrame>>

\* Game.process_input, lines 112-163
Game_process_input ==
    /\ game.status = "running" /\ game.step = "input"
    /\ \E evs \in SeqsUpTo(Events, MaxEvents) :
        IF use_keyboard(game.keyboard, game.spikerbox)
        THEN LET st == process_input_keyboard(evs,
                          [controls |-> controls, keyboard |-> game.keyboard,
                           exited |-> FALSE])
             IN  /\ controls' = st.controls
                 /\ game' = [game EXCEPT
                       !.keyboard = st.keyboard,
                       !.status = IF st.exited THEN "exited" ELSE "running",
                       !.step = "shoot",
                       !.last_input = "keyboard",
                       !.flag_at_input = game.keyboard]
                 /\ UNCHANGED <<streamVars, buffer_is_none, buffer, buffer_size,
                                buffer_timer, poll>>
        ELSE LET st == process_events_spikerbox(evs,
                          [keyboard |-> game.keyboard, exited |-> FALSE])
             IN  /\ game' = [game EXCEPT
                       !.keyboard = st.keyboard,
                       !.status = IF st.exited THEN "exited" ELSE "running",
                       !.step = "shoot",
                       !.last_input = "spikerbox",
                       !.flag_at_input = game.keyboard]
                 /\ IF st.exited
                    THEN UNCHANGED <<streamVars, boxVars>>
                    ELSE process_input(controls, game.tick)
    /\ UNCHANGED gameFrame

\* Game.shoot_projectile, lines 165-174
Game_shoot_projectile ==
    /\ game.status = "running" /\ game.step = "shoot"
    /\ controls' = IF controls.SHOOT = 1 THEN [controls EXCEPT !.SHOOT = 0]
                   ELSE controls
    /\ game' = [game EXCEPT !.step = "move"]
    /\ UNCHANGED <<streamVars, buffer_is_none, buffer, buffer_size,
                   buffer_timer, poll, gameFrame>>

\* the player's x after the LEFT and RIGHT moves of lines 185-192
move_player(x, c) ==
    LET x1 == IF c.LEFT = 1 /\ x - PLAYER_LANE_OFFSET >= 0
              THEN x - PLAYER_LANE_OFFSET ELSE x
    IN  IF c.RIGHT = 1 /\ x1 + PLAYER_LANE_OFFSET <= WIDTH
        THEN x1 + PLAYER_LANE_OFFSET ELSE x1

\* mutant: move_entities leaves LEFT and RIGHT as it found them
flags_after_move_kept(c) == c

\* the flags after lines 185-192: LEFT and RIGHT are reset once acted on
flags_after_move(c) == [c EXCEPT !.LEFT = 0, !.RIGHT = 0]

\* Game.move_entities, lines 176-204
Game_move_entities ==
    /\ game.status = "running" /\ game.step = "move"
    /\ game' = [game EXCEPT !.player_x = move_player(@, controls),
                            !.step = "collide"]
    /\ controls' = flags_after_move(controls)
    /\ UNCHANGED <<streamVars, buffer_is_none, buffer, buffer_size,
                   buffer_timer, poll, gameFrame>>

\* the player's hp after the enemy loop of lines 208-217 when `hits` live
\* enemies overlap the player: each takes 1 hp, and game_over() ends the
\* process, and with it the loop, as soon as the hp is 0
RECURSIVE handle_collision_hp(_, _)
handle_collision_hp(hp, hits) ==
    IF hits = 0 THEN hp
    ELSE IF hp - 1 <= 0 THEN hp - 1
    ELSE handle_collision_hp(hp - 1, hits - 1)

\* Game.handle_collision and Game.game_over, lines 206-226: any number of
\* enemies may overlap the player; at hp 0 the game is over and the process
\* exits
Game_handle_collision ==
    /\ game.status = "running" /\ game.step = "collide"
    /\ \E hits \in 0..MaxHits :
          LET hp == handle_collision_hp(game.player_hp, hits)
          IN  game' = [game EXCEPT
                  !.player_hp = hp,
                  !.status = IF hp <= 0 THEN "exited" ELSE "running",
                  !.step = "tick"]
    /\ UNCHANGED <<streamVars, boxVars, gameFrame>>

NextGame ==
    \/ Game_tick
    \/ Game_process_input
    \/ Game_shoot_projectile
    \/ Game_move_entities
    \/ Game_handle_collision

SpecGame == InitGame /\ [][NextGame]_vars

-----------------------------------------------------------------------------
(* SpecConstruct: one call of SpikerBox.__init__, statement by statement,  *)
(* and, if it returns an object, a caller polling that object              *)

\* constants.MODELS: the model names and their files
MODELS == [KNearestNeighbours     |-> "models/KNN.joblib",
           RandomForestClassifier |-> "models/RFC.joblib",
           SVM                    |-> "models/SVM.joblib"]

\* the model_type and stream_type arguments a caller may pass; "Unknown"
\* stands for any string that is neither a key of MODELS nor a stream type
ModelArgs  == DOMAIN MODELS \cup {"Unknown"}
StreamArgs == {SPIKERSTREAM, ARRAYSTREAM, WAVSTREAM, "None", "Unknown"}

\* mutant: the lookup of line 24 finds a file for every name
model_known_any(model_type) == TRUE

\* whether MODELS[model_type] of line 24 finds a key
model_known(model_type) == model_type \in DOMAIN MODELS

\* the call is entered: no statement of __init__ has run, no field is set
InitConstruct ==
    /\ ctor \in [pc : {"load_model"}, model_type : ModelArgs,
                 stream_type : StreamArgs, port_ok : BOOLEAN,
                 file_ok : BOOLEAN, raised : {"none"}]
    /\ stream_type = "unset" /\ chunk = 0 /\ buffer_time = 0
    /\ array = <<>> /\ pointer = 0
    /\ buffer_is_none = TRUE /\ buffer = <<>> /\ buffer_size = 0
    /\ buffer_timer = 0
    /\ controls = [LEFT |-> 0, RIGHT |-> 0, SHOOT |-> 0]
    /\ poll = NoPoll
    /\ DecIdle
    /\ SessIdle
    /\ NormIdle /\ HistoryIdle /\ ObsIdle

\* line 24: self.model = load(MODELS[model_type])
SpikerBox_load_model ==
    /\ ctor.pc = "load_model"
    /\ ctor' = IF model_known(ctor.model_type)
               THEN [ctor EXCEPT !.pc = "build_stream"]
               ELSE [ctor EXCEPT !.pc = "raised", !.raised = "KeyError"]
    /\ UNCHANGED <<streamVars, boxVars, decVars, sessVars, norm, history, obsVars>>

\* lines 25-36: the stream is built, or the call ends
SpikerBox_build_stream ==
    /\ ctor.pc = "build_stream"
    /\ LET outcome == stream_outcome(ctor.stream_type, ctor.port_ok,
                                     ctor.file_ok)
       IN  IF outcome = "stream"
           THEN /\ ctor' = [ctor EXCEPT !.pc = "set_fields"]
                /\ stream_type' = ctor.stream_type
                /\ chunk' = MaxChunk
                /\ buffer_time' = MaxBufferTime
                /\ array' = IF ctor.stream_type = SPIKERSTREAM THEN <<>>
                            ELSE ReplayArray(MaxArrayLen)
                /\ pointer' = 0
                /\ device' = IF ctor.stream_type = SPIKERSTREAM
                             THEN [is_open |-> TRUE, in_waiting |-> <<>>,
                                   flushed |-> FALSE, close_returned |-> FALSE,
                                   raw_data |-> <<>>]
                             ELSE device
           ELSE /\ ctor' = [ctor EXCEPT !.pc = "raised", !.raised = outcome]
                /\ UNCHANGED <<streamVars, device>>
    /\ UNCHANGED <<boxVars, decVars, replay, game, norm, history, obsVars>>

\* lines 37-40: the window fields are set and the object is returned
SpikerBox_set_fields ==
    /\ ctor.pc = "set_fields"
    /\ ctor' = [ctor EXCEPT !.pc = "returned"]
    /\ buffer_is_none' = TRUE
    /\ buffer' = <<>>
    /\ buffer_size' = MaxBufferSize
    /\ buffer_timer' = 0
    /\ UNCHANGED <<controls, poll, streamVars, decVars, sessVars, norm, history, obsVars>>

\* the caller polls the object the call returned
SpikerBox_poll ==
    /\ ctor.pc = "returned"
    /\ \E controls_in \in ControlStates, tick \in 0..MaxTick :
          process_input(controls_in, tick)
    /\ UNCHANGED <<decVars, sessVars, auxVars>>

NextConstruct ==
    \/ SpikerBox_load_model
    \/ SpikerBox_build_stream
    \/ SpikerBox_set_fields
    \/ SpikerBox_poll

SpecConstruct == InitConstruct /\ [][NextConstruct]_vars

-----------------------------------------------------------------------------
(* SpecNormalise: normalise_signal.  numpy computes in floating point; the *)
(* model computes the same quotients exactly, as fractions [num, den] with *)
(* den > 0; the fraction 0/0 is numpy's nan, the value of 0.0 / 0.0        *)

Abs(x) == IF x < 0 THEN -x ELSE x

RECURSIVE SeqSum(_)
SeqSum(xs) == IF xs = <<>> THEN 0 ELSE Head(xs) + SeqSum(Tail(xs))

RECURSIVE SeqMax(_)
SeqMax(xs) == IF Len(xs) = 1 THEN xs[1]
              ELSE LET m == SeqMax(Tail(xs))
                   IN  IF xs[1] > m THEN xs[1] ELSE m

\* np.mean(signal), line 336
np_mean(signal) == [num |-> SeqSum(signal), den |-> Len(signal)]

\* signal - signal_centre, line 337: x - s/n = (n*x - s)/n
standardise(signal, centre) ==
    [k \in 1..Len(signal) |->
        [num |-> centre.den * signal[k] - centre.num, den |-> centre.den]]

\* mutant: the amplitude is the largest centred value, not the largest
\* absolute one (np.abs of line 338 missing)
signal_amplitude_no_abs(standardised) ==
    [num |-> SeqMax([k \in 1..Len(standardised) |-> standardised[k].num]),
     den |-> standardised[1].den]

\* np.max(np.abs(standardised_signal)), line 338
signal_amplitude(standardised) ==
    [num |-> SeqMax([k \in 1..Len(standardised) |-> Abs(standardised[k].num)]),
     den |-> standardised[1].den]

\* one element of standardised_signal / signal_amplitude, line 339:
\* numpy returns nan for 0.0 / 0.0 and goes on
np_divide(x, a) ==
    IF a.num >= 0 THEN [num |-> x.num * a.den, den |-> x.den * a.num]
    ELSE [num |-> -(x.num * a.den), den |-> -(x.den * a.num)]

\* np.isnan
IsNan(v) == v.den = 0

\* normalise_signal, lines 323-339: the result and whether line 339 divided
\* by zero
normalise_signal(signal) ==
    LET signal_centre       == np_mean(signal)
        standardised_signal == standardise(signal, signal_centre)
        amplitude           == signal_amplitude(standardised_signal)
    IN  [called        |-> TRUE,
         signal        |-> signal,
         values        |-> [k \in 1..Len(signal) |->
                               np_divide(standardised_signal[k], amplitude)],
         zero_division |-> amplitude.num = 0]

\* a non-empty signal is about to be normalised
InitNormalise ==
    /\ \E signal \in SeqsUpTo(SignalSamples, MaxSignalLen) \ {<<>>} :
          norm = [called |-> FALSE, signal |-> signal]
    /\ BoxIdle
    /\ DecIdle
    /\ SessIdle
    /\ CtorIdle /\ HistoryIdle /\ ObsIdle

\* the call of normalise_signal, spikerbox.py line 67
normalise_signal_call ==
    /\ ~norm.called
    /\ norm' = normalise_signal(norm.signal)
    /\ UNCHANGED <<streamVars, boxVars, decVars, sessVars, ctor, history, obsVars>>

NextNormalise == normalise_signal_call

SpecNormalise == InitNormalise /\ [][NextNormalise]_vars

-----------------------------------------------------------------------------
(* SpecWindow: the caller of Spec, observed with the concatenation of all  *)
(* chunks the stream has returned.  The caller stops polling once          *)
(* MaxHistory samples have been pulled.                                    *)

\* the chunk a poll pulled: process_input appends it to the window last
pulled_chunk(window, raw_len) == SubSeq(window, Len(window) - raw_len + 1, Len(window))

\* one poll; history grows by the chunk pulled, if any, which is one the
\* stream could return from where it stood
process_input_observed ==
    /\ Len(history) < MaxHistory
    /\ \E controls_in \in LiveInputs, tick \in 0..MaxTick :
          process_input(controls_in, tick)
    /\ history' = history \o pulled_chunk(buffer', poll'.raw_len)
    /\ poll'.pulls = 1 =>
          \E u \in stream_update :
              u.raw_data = pulled_chunk(buffer', poll'.raw_len)
    /\ UNCHANGED <<decVars, sessVars, ctor, norm, obsVars>>

NextWindow == process_input_observed

SpecWindow == Init /\ [][NextWindow]_vars

-----------------------------------------------------------------------------
(* SpecRead: a SpikerStream of src/Game/spikerbox.py ("Game") or of        *)
(* src/SpikerStreamPython/input_stream.py ("SpikerStreamPython"), built    *)
(* with a chunk argument and then updated.  A timeout is kept as the       *)
(* fraction [num, den] of a second.                                        *)

\* SpikerStream.CHUNK_UNIT_TIME: chunk units per second
CHUNK_UNIT_TIME == 20000

Implementations == {"Game", "SpikerStreamPython"}

\* self.chunk after super().__init__: spikerbox.py line 139 stores
\* (chunk // 2) - 1, input_stream.py line 151 stores chunk
stored_chunk(impl, chunk_arg) ==
    IF impl = "Game" THEN (chunk_arg \div 2) - 1 ELSE chunk_arg

\* serial_handle.timeout: spikerbox.py line 154 sets chunk / 20000.0 from
\* the argument, input_stream.py line 174 sets self.chunk / 20000.0
read_timeout(impl, chunk_arg) ==
    IF impl = "Game"
    THEN [num |-> chunk_arg, den |-> CHUNK_UNIT_TIME]
    ELSE [num |-> stored_chunk(impl, chunk_arg), den |-> CHUNK_UNIT_TIME]

\* SpikerStream.__init__(cport, chunk) with a port that opens
InitRead ==
    \E impl \in Implementations, chunk_arg \in 2..MaxChunkArg :
        /\ stream_type = SPIKERSTREAM
        /\ chunk = stored_chunk(impl, chunk_arg)
        /\ buffer_time = MaxBufferTime
        /\ array = <<>> /\ pointer = 0
        /\ buffer_is_none = TRUE /\ buffer = <<>> /\ buffer_size = MaxBufferSize
        /\ buffer_timer = 0
        /\ controls = [LEFT |-> 0, RIGHT |-> 0, SHOOT |-> 0]
        /\ poll = NoPoll
        /\ DecIdle
        /\ ReplayIdle /\ GameIdle
        /\ AuxIdle
        /\ device = [is_open |-> TRUE, in_waiting |-> <<>>, flushed |-> FALSE,
                     close_returned |-> FALSE, raw_data |-> <<>>,
                     impl |-> impl, chunk_arg |-> chunk_arg,
                     timeout |-> read_timeout(impl, chunk_arg),
                     reads |-> 0, requested |-> 0]

\* SpikerStream.update(): read_arduino asks the port for self.chunk bytes,
\* process_data decodes what came back
SpikerStream_update_read ==
    /\ device.is_open
    /\ LET r == serial_read(device.in_waiting, chunk)
       IN  device' = [device EXCEPT !.in_waiting = r.rest,
                                    !.raw_data = process_data(r.bytes),
                                    !.reads = 1,
                                    !.requested = chunk]
    /\ UNCHANGED <<streamVars, boxVars, decVars, replay, game, auxVars>>

NextRead == serial_receive \/ SpikerStream_update_read

SpecRead == InitRead /\ [][NextRead]_vars

-----------------------------------------------------------------------------
(* SpecSteady: the caller of Spec on an ArrayStream whose array holds more *)
(* than MaxPulls slices: every pull returns exactly `chunk` samples.  The  *)
(* length of the window after each pull is kept in window_lens.            *)

\* SpikerBox.__init__ with an ArrayStream over a long recording
InitSteady ==
    /\ stream_type = ARRAYSTREAM
    /\ chunk \in 1..MaxChunk
    /\ buffer_time = MaxBufferTime
    /\ array = ReplayArray(chunk * (MaxPulls + 1))
    /\ pointer = 0
    /\ buffer_is_none = TRUE
    /\ buffer = <<>>
    /\ buffer_size \in 1..MaxBufferSize
    /\ buffer_timer = 0
    /\ controls = [LEFT |-> 0, RIGHT |-> 0, SHOOT |-> 0]
    /\ poll = NoPoll
    /\ DecIdle
    /\ SessIdle
    /\ AuxIdle

\* one poll; a pull adds the length of the window it left to window_lens
process_input_steady ==
    /\ Len(window_lens) < MaxPulls
    /\ \E controls_in \in LiveInputs, tick \in 0..MaxTick :
          process_input(controls_in, tick)
    /\ window_lens' = IF poll'.pulls = 1
                      THEN Append(window_lens, Len(buffer'))
                      ELSE window_lens
    /\ UNCHANGED <<decVars, sessVars, ctor, norm, history, save_array>>

NextSteady == process_input_steady

SpecSteady == InitSteady /\ [][NextSteady]_vars

-----------------------------------------------------------------------------
(* SpecSaver: main() of SpikerStreamPython/saver.py over a SpikerStream.   *)
(* save_array is the local of that name; history is the concatenation of   *)
(* the chunks in the order update() returned them.  The loop test compares *)
(* wall-clock time, so the loop may stop after any number of updates.      *)

\* the chunk one update() of the stream returns, and the bytes left unread
saver_update ==
    LET r == serial_read(device.in_waiting, chunk)
    IN  [chunk |-> process_data(r.bytes), rest |-> r.rest]

\* main() up to line 29: the stream is built and the clock is started
InitSaver ==
    /\ stream_type = SPIKERSTREAM
    /\ chunk \in 2..MaxChunk
    /\ buffer_time = MaxBufferTime
    /\ array = <<>> /\ pointer = 0
    /\ buffer_is_none = TRUE /\ buffer = <<>> /\ buffer_size = MaxBufferSize
    /\ buffer_timer = 0
    /\ controls = [LEFT |-> 0, RIGHT |-> 0, SHOOT |-> 0]
    /\ poll = NoPoll
    /\ DecIdle
    /\ ReplayIdle /\ GameIdle
    /\ CtorIdle /\ NormIdle /\ HistoryIdle /\ ObsIdle
    /\ device = [is_open |-> TRUE, in_waiting |-> <<>>, flushed |-> FALSE,
                 close_returned |-> FALSE, raw_data |-> <<>>,
                 saver |-> "start", updates |-> 0, saved |-> <<>>]

\* line 30: save_array = input_stream.update()
saver_first_update ==
    /\ device.saver = "start"
    /\ LET u == saver_update
       IN  /\ save_array' = u.chunk
           /\ history' = history \o u.chunk
           /\ device' = [device EXCEPT !.in_waiting = u.rest,
                                       !.raw_data = u.chunk,
                                       !.saver = "loop",
                                       !.updates = 1]
    /\ UNCHANGED <<streamVars, boxVars, decVars, replay, game, ctor, norm,
                   window_lens>>

\* lines 31-32: the recording time is not up, one more chunk is read and
\* joined to save_array
saver_next_update ==
    /\ device.saver = "loop"
    /\ device.updates < MaxRecorded
    /\ LET u == saver_update
       IN  /\ save_array' = u.chunk \o save_array
           /\ history' = history \o u.chunk
           /\ device' = [device EXCEPT !.in_waiting = u.rest,
                                       !.raw_data = u.chunk,
                                       !.updates = @ + 1]
    /\ UNCHANGED <<streamVars, boxVars, decVars, replay, game, ctor, norm,
                   window_lens>>

\* lines 31 and 33: the recording time is up, np.save writes save_array
saver_save ==
    /\ device.saver = "loop"
    /\ device' = [device EXCEPT !.saver = "saved", !.saved = save_array]
    /\ UNCHANGED <<streamVars, boxVars, decVars, replay, game, auxVars>>

NextSaver ==
    \/ serial_receive
    \/ saver_first_update
    \/ saver_next_update
    \/ saver_save

SpecSaver == InitSaver /\ [][NextSaver]_vars

-----------------------------------------------------------------------------
(* Claims about SpikerBox.process_input, checked under Spec *)

\* C1 (gating cadence): a poll pulls a chunk exactly when the elapsed time
\* accumulated since the last pull (or since construction), this poll's
\* included, has reached buffer_time; it then pulls one chunk and leaves
\* buffer_timer at 0.  Below buffer_time nothing is pulled.
C1_GatingCadence ==
    poll.polled =>
        /\ poll.pulls = (IF poll.acc >= buffer_time THEN 1 ELSE 0)
        /\ (poll.pulls = 1 => buffer_timer = 0)
        /\ (poll.pulls = 0 => buffer_timer = poll.acc)

\* a pull made by the poll at which the accumulated time reached buffer_time
C1_Witness ==
    poll.polled /\ poll.pulls = 1 /\ poll.acc = buffer_time /\ buffer_timer = 0

\* C2 (label-to-control mapping): after a poll that pulled a chunk, LEFT is 1
\* exactly when the label is "left" and RIGHT is 1 exactly when it is "right";
\* both are 0 for any other label and they are never both 1.
C2_LabelMapping ==
    poll.pulls = 1 =>
        /\ controls.LEFT  = (IF poll.label = "left" THEN 1 ELSE 0)
        /\ controls.RIGHT = (IF poll.label = "right" THEN 1 ELSE 0)
        /\ ~(controls.LEFT = 1 /\ controls.RIGHT = 1)

\* "left" classified while the caller passed RIGHT = 1
C2_Witness ==
    /\ poll.pulls = 1 /\ poll.predicts = 1 /\ poll.label = "left"
    /\ poll.controls_in.RIGHT = 1
    /\ controls.LEFT = 1 /\ controls.RIGHT = 0

\* C3 as stated (unready window means no movement): every poll without a
\* ready window, the gated ones included, returns LEFT = 0 and RIGHT = 0.
C3_UnreadyNoMovement ==
    (poll.polled /\ poll.predicts = 0) =>
        (controls.LEFT = 0 /\ controls.RIGHT = 0)

\* C3 amended: a poll that pulled a chunk but found the window too short
\* returns LEFT = 0 and RIGHT = 0 whatever was passed in; a poll whose timer
\* gate stayed closed returns LEFT and RIGHT as they were passed in.
C3_UnreadyNoMovementAmended ==
    /\ (poll.pulls = 1 /\ poll.predicts = 0) =>
           (controls.LEFT = 0 /\ controls.RIGHT = 0)
    /\ (poll.polled /\ poll.pulls = 0) =>
           /\ controls.LEFT = poll.controls_in.LEFT
           /\ controls.RIGHT = poll.controls_in.RIGHT

\* a chunk was pulled, the window is too short, and the flags passed in as 1
\* came back as 0
C3_Witness ==
    /\ poll.pulls = 1 /\ poll.predicts = 0
    /\ poll.controls_in.LEFT = 1 /\ poll.controls_in.RIGHT = 1
    /\ controls.LEFT = 0 /\ controls.RIGHT = 0

\* C4 (SHOOT untouched): after every poll, gated, unready or classified, the
\* returned SHOOT equals the SHOOT passed in.
C4_ShootUntouched ==
    poll.polled => controls.SHOOT = poll.controls_in.SHOOT

\* a classified poll with a label other than left/right/noise and SHOOT = 0
C4_Witness ==
    /\ poll.pulls = 1 /\ poll.predicts = 1 /\ poll.label = "blink"
    /\ poll.controls_in.SHOOT = 0 /\ controls.SHOOT = 0

\* C5 (window bound): the window is never longer than buffer_size plus the
\* largest chunk one update() of the stream returns, and never of negative
\* length.
C5_WindowBound ==
    /\ Len(buffer) >= 0
    /\ Len(buffer) <= buffer_size + chunk_length

\* the bound is attained: a full chunk appended to a window of buffer_size
C5_Witness ==
    /\ poll.pulls = 1 /\ ~poll.was_none /\ ~poll.trimmed
    /\ poll.kept_len = buffer_size /\ poll.raw_len = chunk_length
    /\ chunk_length >= 2
    /\ Len(buffer) = buffer_size + chunk_length

\* C6 as stated (window after trimming): whenever a pull trims the window,
\* its length after the trim and before the concatenation is at most
\* buffer_size.
C6_TrimmedWithinBufferSize ==
    poll.trimmed => poll.kept_len <= buffer_size

\* C6 amended: whenever a pull trims the window, its length after the trim is
\* at most buffer_size + chunk_length - len(chunk) - 1 for the chunk just
\* pulled: below buffer_size when the chunk has the full chunk_length, and
\* possibly above buffer_size after a short or empty chunk.
C6_TrimmedAmended ==
    poll.trimmed =>
        /\ poll.kept_len <= buffer_size + chunk_length - poll.raw_len - 1
        /\ (poll.raw_len = chunk_length => poll.kept_len < buffer_size)

\* a trim before a short chunk that leaves more than buffer_size samples
C6_Witness ==
    /\ poll.trimmed /\ poll.raw_len < chunk_length
    /\ poll.kept_len > buffer_size
    /\ poll.kept_len = buffer_size + chunk_length - poll.raw_len - 1

\* C7 (classification once per ready window): the classifier is invoked once
\* on a poll that pulled a chunk and left the window longer than buffer_size,
\* and not at all on any other poll; an unclassified pull has the label
\* "noise".
C7_ClassifiedOncePerReadyWindow ==
    poll.polled =>
        /\ poll.predicts =
              (IF poll.pulls = 1 /\ Len(buffer) > buffer_size THEN 1 ELSE 0)
        /\ (poll.pulls = 1 /\ poll.predicts = 0 => poll.label = "noise")

\* a pull that left the window one sample over buffer_size and classified it
C7_Witness ==
    /\ poll.pulls = 1 /\ poll.predicts = 1
    /\ Len(buffer) = buffer_size + 1

\* C8 as stated (inclusive threshold): a pull that leaves the window at
\* exactly buffer_size samples classifies it.
C8_InclusiveThreshold ==
    (poll.pulls = 1 /\ Len(buffer) = buffer_size) => poll.predicts = 1

\* C8 amended: the threshold is exclusive; a pull that leaves the window at
\* exactly buffer_size samples does not classify it and the label is "noise".
C8_ExclusiveThreshold ==
    (poll.pulls = 1 /\ Len(buffer) = buffer_size) =>
        (poll.predicts = 0 /\ poll.label = "noise"
            /\ controls.LEFT = 0 /\ controls.RIGHT = 0)

\* a pull that left the window at exactly buffer_size, unclassified
C8_Witness ==
    /\ poll.pulls = 1 /\ poll.raw_len > 0 /\ Len(buffer) = buffer_size
    /\ poll.predicts = 0 /\ poll.label = "noise"

-----------------------------------------------------------------------------
(* Claims about SpikerStream.process_data, checked under SpecDecode *)

\* whether the scan of buffer d starts a frame at index k (0-based): k is
\* neither the first nor the last index, d[k] is a marker, and d[k-1] did
\* not start a frame that took d[k] for its low byte
RECURSIVE StartsFrame(_, _)
StartsFrame(d, k) ==
    /\ 1 <= k /\ k <= Len(d) - 2
    /\ d[k + 1] > 127
    /\ ~StartsFrame(d, k - 1)

FrameStarts(d) == {k \in 0..(Len(d) - 1) : StartsFrame(d, k)}

\* the n-th smallest element of a set of integers
NthOf(S, n) == CHOOSE k \in S : Cardinality({j \in S : j <= k}) = n

\* the samples of the frames of d, in the order of their positions
ScanSamples(d) ==
    [n \in 1..Cardinality(FrameStarts(d)) |->
        LET k == NthOf(FrameStarts(d), n)
        IN  (d[k + 1] % 128) * 128 + d[k + 2]]

\* C9 (frame decode correctness): process_data returns the samples of the
\* left-to-right scan over the indices 1..len-2, (b[i] & 127) * 128 + b[i+1]
\* for each marker the scan meets, resuming at i+2; the first and the last
\* byte never start a frame; [0x00, 0x81, 0x05, 0x00] decodes to 133.
C9_FrameDecode ==
    pc = "done" =>
        /\ result = ScanSamples(data)
        /\ ~StartsFrame(data, 0) /\ ~StartsFrame(data, Len(data) - 1)
        /\ (data = <<0, 129, 5, 0>> => result = <<133>>)

\* a buffer with two frames decoded: the scan went on after the first
\* frame, passed a byte that is no marker, met the second frame, and
\* returned the two samples in the order of their frames
C9_Witness ==
    /\ pc = "done"
    /\ data = <<0, 129, 5, 0, 255, 0>>
    /\ result = <<133, 16256>>

\* C10 (resynchronisation): a buffer with no byte above 127 decodes to no
\* sample, and no buffer decodes to more samples than it has bytes above 127.
C10_Resynchronisation ==
    pc = "done" =>
        /\ ((\A k \in 1..Len(data) : data[k] <= 127) => result = <<>>)
        /\ Len(result) <= Cardinality({k \in 1..Len(data) : data[k] > 127})

\* a buffer of several bytes, none a marker, decoded to nothing
C10_Witness ==
    /\ pc = "done" /\ Len(data) >= 3
    /\ \A k \in 1..Len(data) : data[k] <= 127
    /\ \E k \in 1..Len(data) : data[k] = 127
    /\ result = <<>>


\* the (1-based) positions of the bytes above 127 in d
Markers(d) == {k \in 1..Len(d) : d[k] > 127}

\* C11 as stated (decoded sample range): every sample emitted for a buffer of
\* byte values 0..255 is an integer in 0..16383.
C11_SampleFitsIn14Bits ==
    pc = "done" => \A n \in 1..Len(result) : result[n] \in 0..16383

\* C11 amended: every sample emitted is an integer in 0..16511
\* (127 * 128 + 255); it fits in 14 bits (0..16383) whenever no byte above
\* 127 directly follows another byte above 127 in the buffer, so that every
\* low byte is at most 127.
C11_SampleRangeAmended ==
    pc = "done" =>
        /\ \A n \in 1..Len(result) : result[n] \in 0..16511
        /\ (\A k \in Markers(data) : (k + 1) \notin Markers(data))
              => \A n \in 1..Len(result) : result[n] \in 0..16383

\* the largest sample: marker 255 followed by the byte 255
C11_Witness ==
    pc = "done" /\ data = <<0, 255, 255, 0>> /\ result = <<16511>>

\* d is a contiguous cut of a well-formed frame stream: bytes above 127 and
\* bytes of at most 127 alternate
WellFormedCut(d) ==
    \A k \in 1..(Len(d) - 1) : (d[k] > 127) <=> (d[k + 1] <= 127)

\* C12 as stated (bounded decode loss): of the frames whose marker lies in a
\* buffer cut from a well-formed stream, at most one is missing from the
\* output.
C12_AtMostOneFrameLost ==
    (pc = "done" /\ WellFormedCut(data)) =>
        Cardinality(Markers(data)) - Len(result) <= 1

\* C12 amended: of the frames whose marker lies in a buffer cut from a
\* well-formed stream, at most two are missing from the output: the frame
\* whose marker is the first byte of the buffer (a complete frame) and the
\* frame whose marker is the last byte (the trailing incomplete frame);
\* every frame whose marker is at an interior position is decoded, and the
\* call returns without an error.
C12_AtMostTwoFramesLost ==
    (pc = "done" /\ WellFormedCut(data)) =>
        /\ Cardinality(Markers(data)) - Len(result) <= 2
        /\ Len(result) = Cardinality(Markers(data) \ {1, Len(data)})
        /\ \A n \in 1..Len(result) :
              LET k == NthOf(Markers(data) \ {1, Len(data)}, n)
              IN  result[n] = (data[k] % 128) * 128 + data[k + 1]

\* a cut that starts and ends with a marker loses both frames
C12_Witness ==
    /\ pc = "done" /\ WellFormedCut(data) /\ Len(data) >= 3
    /\ data[1] > 127 /\ data[Len(data)] > 127
    /\ Cardinality(Markers(data)) - Len(result) = 2

\* the 0-based indices of the bytes above 127 that are neither the first
\* nor the last byte of d
InteriorMarkers(d) == {k \in 1..(Len(d) - 2) : At(d, k) > 127}

\* C29 as stated (every marker starts a frame): each byte above 127 at an
\* interior position of the buffer starts a frame and yields exactly one
\* sample, the one built from it and the byte after it.
C29_EveryMarkerStartsFrame ==
    pc = "done" =>
        /\ Len(result) = Cardinality(InteriorMarkers(data))
        /\ \A n \in 1..Len(result) :
              LET k == NthOf(InteriorMarkers(data), n)
              IN  result[n] = (At(data, k) % 128) * 128 + At(data, k + 1)

\* C29 amended: each byte above 127 at an interior position either starts a
\* frame and yields one sample, or directly follows a byte that started a
\* frame and was consumed as that frame's low part; in a buffer in which no
\* byte above 127 directly follows another at an interior position, every
\* interior marker starts a frame.
C29_MarkerStartsFrameOrIsLowByte ==
    pc = "done" =>
        /\ Len(result) = Cardinality(FrameStarts(data))
        /\ FrameStarts(data) \subseteq InteriorMarkers(data)
        /\ \A k \in InteriorMarkers(data) \ FrameStarts(data) :
              /\ (k - 1) \in FrameStarts(data)
              /\ \E n \in 1..Len(result) :
                    result[n] = (At(data, k - 1) % 128) * 128 + At(data, k)
        /\ (\A k \in InteriorMarkers(data) : (k - 1) \notin InteriorMarkers(data))
              => /\ FrameStarts(data) = InteriorMarkers(data)
                 /\ Len(result) = Cardinality(InteriorMarkers(data))

\* two markers side by side at interior positions: the second was consumed
\* as the low part of the first one's frame
C29_Witness ==
    /\ pc = "done" /\ data = <<0, 129, 255, 5>>
    /\ result = <<383>>
    /\ InteriorMarkers(data) = {1, 2}

\* C38 as stated (decoder termination and bounds), checked under
\* SpecDecodeFair: for every finite byte sequence, lengths 0, 1 and 2
\* included, process_data terminates, never reads an index outside the
\* buffer, and emits at most floor((len - 1) / 2) samples.
C38_TerminationAndBounds ==
    /\ <>(pc = "done")
    /\ [][i' # i => (i' > i /\ 0 <= i /\ i' - 1 <= Len(data) - 1)]_vars
    /\ [](Len(result) <= (Len(data) - 1) \div 2)

\* C38 amended: for every finite byte sequence process_data terminates,
\* each pass of its loop moves the index forward and reads only indices
\* inside the buffer, and it emits at most floor((len - 1) / 2) samples for
\* a buffer of one byte or more and no sample for the empty buffer, that
\* is at most max(0, floor((len - 1) / 2)).
C38_TerminationAndBoundsAmended ==
    /\ <>(pc = "done")
    /\ [][i' # i => (i' > i /\ 0 <= i /\ i' - 1 <= Len(data) - 1)]_vars
    /\ [](Len(result) <= IF Len(data) = 0 THEN 0
                         ELSE (Len(data) - 1) \div 2)

\* the decoder has returned from a buffer of four bytes with as many
\* samples as the bound allows, its last read on the last index
C38_Witness ==
    /\ pc = "done"
    /\ Len(data) = 4
    /\ Len(result) = 1
    /\ i = Len(data)

-----------------------------------------------------------------------------
(* Claims about the replay streams, checked under SpecReplay *)

\* the two replay streams
Streams == {replay.A, replay.W}

\* C13 (replay wraparound): an update() resets the pointer to 0 and prints
\* one restart notice exactly when the advanced pointer exceeds the array
\* length, and otherwise leaves the pointer advanced by chunk without a
\* notice; over 25 elements with chunk 10, three updates leave the pointer
\* at 0 with one notice printed in all.
C13_ReplayWraparound ==
    /\ \A st \in Streams :
          st.updates > 0 =>
              IF st.prev_pointer + chunk > Len(array)
              THEN st.pointer = 0 /\ st.notices = 1
              ELSE st.pointer = st.prev_pointer + chunk /\ st.notices = 0
    /\ (Len(array) = 25 /\ chunk = 10 /\ replay.A.updates = 3) =>
          (replay.A.pointer = 0 /\ replay.A.restarts = 1)

\* the 25-element array with chunk 10 after three updates
C13_Witness ==
    /\ Len(array) = 25 /\ chunk = 10 /\ replay.A.updates = 3
    /\ replay.A.prev_pointer = 20 /\ replay.A.pointer = 0
    /\ replay.A.restarts = 1

\* C14 as stated (pointer validity): after every update() over a non-empty
\* array the pointer is a valid index, 0 <= pointer < array length.
C14_PointerIsValidIndex ==
    Len(array) > 0 =>
        \A st \in Streams :
            st.updates > 0 => (0 <= st.pointer /\ st.pointer < Len(array))

\* C14 amended: after every update() over a non-empty array the pointer
\* satisfies 0 <= pointer <= array length; it equals the array length when
\* an advance lands exactly on the end (no wrap happens then), and the next
\* update() returns an empty slice and wraps it to 0.  No update() fails.
C14_PointerWithinArray ==
    Len(array) > 0 =>
        \A st \in Streams :
            st.updates > 0 =>
                /\ 0 <= st.pointer /\ st.pointer <= Len(array)
                /\ (st.prev_pointer + chunk = Len(array)
                       => st.pointer = Len(array))
                /\ (st.prev_pointer = Len(array)
                       => st.array_slice = <<>> /\ st.pointer = 0)

\* the pointer rests on the array length, one past the last index
C14_Witness ==
    /\ Len(array) > 0 /\ replay.A.updates > 0
    /\ replay.A.pointer = Len(array)

\* C15 as stated (fixed chunk length): every update() returns exactly chunk
\* samples.
C15_FixedChunkLength ==
    \A st \in Streams : st.updates > 0 => Len(st.array_slice) = chunk

\* C15 amended: every update() returns min(chunk, array length - pointer)
\* samples for the pointer it starts from: exactly chunk samples when that
\* many remain, otherwise the remaining ones, possibly none.
C15_ChunkLengthAmended ==
    \A st \in Streams :
        st.updates > 0 =>
            Len(st.array_slice) = Min(chunk, Len(array) - st.prev_pointer)

\* a short, non-empty slice at the end of the array
C15_Witness ==
    /\ replay.A.updates > 1
    /\ Len(replay.A.array_slice) > 0
    /\ Len(replay.A.array_slice) < chunk

\* C33 as stated (replay chunks are never empty), checked under
\* SpecReplay: over a non-empty array with a positive slice length every
\* update() returns at least one sample.
C33_ChunkNeverEmpty ==
    Len(array) > 0 =>
        \A st \in Streams : st.updates > 0 => st.array_slice # <<>>

\* C33 amended: over a non-empty array with a positive slice length an
\* update() returns no sample exactly when it starts with the pointer on
\* the array length, which is where the preceding update() leaves it when
\* its slice ends on the last element; the empty update() resets the
\* pointer to 0, so the update() after it returns at least one sample.
C33_EmptyChunkAtArrayEnd ==
    Len(array) > 0 =>
        \A st \in Streams :
            st.updates > 0 =>
                /\ st.array_slice = <<>> <=> st.prev_pointer = Len(array)
                /\ st.array_slice = <<>> =>
                      /\ st.updates > 1
                      /\ st.pointer = 0
                      /\ \A u \in WAVStream_update(array, st.pointer, chunk)
                                  \cup ArrayStream_update(array, st.pointer,
                                                          chunk) :
                            u.raw_data # <<>>

\* a WAVStream over a non-empty array has just returned an empty slice
C33_Witness ==
    /\ Len(array) > 0
    /\ replay.W.updates > 1
    /\ replay.W.array_slice = <<>>
    /\ replay.W.prev_pointer = Len(array)

\* C16 (cyclic replay): the concatenation of the slices returned so far is a
\* prefix of the array repeated: its j-th sample is the array's sample
\* ((j - 1) mod length) + 1, so each sweep emits every element once, in
\* order, and the next sweep starts at the first element.
C16_CyclicReplay ==
    \A st \in Streams :
        /\ (Len(array) = 0 => st.emitted = <<>>)
        /\ \A j \in 1..Len(st.emitted) :
              st.emitted[j] = array[((j - 1) % Len(array)) + 1]

\* a second sweep is under way
C16_Witness ==
    /\ replay.A.restarts >= 1
    /\ Len(replay.A.emitted) > Len(array)
    /\ Len(array) > chunk

\* C17 (WAV and array replay are equivalent): after the same number of
\* update() calls over the same array with the same slice length, the two
\* streams have returned the same slices, hold the same pointer and have
\* printed their restart notices on the same calls.
C17_ReplayEquivalence ==
    replay.A.updates = replay.W.updates => replay.A = replay.W

\* both streams after the same calls, one wrap behind them
C17_Witness ==
    /\ replay.A.updates = replay.W.updates /\ replay.A.updates >= 3
    /\ replay.W.restarts >= 1 /\ replay.W.pointer > 0
    /\ replay.A = replay.W

-----------------------------------------------------------------------------
(* Claims about SpikerStream.close, checked under SpecDevice *)

\* C18 (device close releases the handle): once close() has returned, the
\* serial handle has been flushed and is closed, whether or not the device
\* delivered a byte while close() ran.
C18_CloseReleasesHandle ==
    device.close_returned => (~device.is_open /\ device.flushed)

-----------------------------------------------------------------------------
(* Claims about the Game session, checked under SpecGame *)

\* C19 (guaranteed release on shutdown): when a session that opened the
\* serial device has ended - by the quit event, the Escape key or game over -
\* the source's close() has been called.
C19_ClosedBeforeExit ==
    (game.status = "exited" /\ game.spikerbox = "object"
        /\ stream_type = SPIKERSTREAM)
    => device.close_returned

\* C20 (source unavailable leads to degraded mode): when SpikerBox could not
\* be constructed there is no pipeline object, the session starts and stays
\* in keyboard input, and no frame polls the pipeline, whatever the
\* keyboard flag is.
C20_DegradedMode ==
    game.spikerbox = "none" =>
        /\ game.stream_arg \in {SPIKERSTREAM, "None"}
        /\ game.last_input \in {"none", "keyboard"}
        /\ ~poll.polled /\ buffer_is_none
        /\ (game.last_input = "none" => game.status = "running")

\* the serial port did not open, the keyboard flag is off, and a frame has
\* still read the keyboard and moved the player
C20_Witness ==
    /\ game.spikerbox = "none" /\ game.stream_arg = SPIKERSTREAM
    /\ game.status = "running"
    /\ ~game.flag_at_input /\ game.last_input = "keyboard"
    /\ game.player_x # PLAYER_SPAWN_X
    /\ ~poll.polled

-----------------------------------------------------------------------------
(* Further claims about SpikerBox.process_input, checked under Spec *)

\* C22 (read timeout is not fatal): a device read that returns fewer bytes
\* than requested, or none, decodes to a chunk (the empty chunk when no byte
\* arrived); a poll that pulled an empty chunk from the device has
\* completed, on the first pull as on later ones, with the window set to
\* what it kept of the old one, and if that window is not ready the control
\* state it returned has LEFT = 0 and RIGHT = 0.
C22_ReadTimeoutNotFatal ==
    stream_type = SPIKERSTREAM =>
        /\ \A bytes \in read_arduino(chunk) :
              Len(bytes) < chunk =>
                  LET decoded == process_data(bytes)
                  IN  /\ Len(decoded) <= chunk_length
                      /\ \A n \in 1..Len(decoded) : decoded[n] \in 0..16511
                      /\ (bytes = <<>> => decoded = <<>>)
        /\ (poll.pulls = 1 /\ poll.raw_len = 0) =>
              /\ ~buffer_is_none
              /\ Len(buffer) = poll.kept_len
              /\ (poll.was_none => buffer = <<>>)
              /\ (~window_ready(buffer, buffer_size) =>
                      controls.LEFT = 0 /\ controls.RIGHT = 0)

\* a later pull on the device came back empty while the caller's LEFT and
\* RIGHT were set and the window was too short: both were cleared
C22_Witness ==
    /\ stream_type = SPIKERSTREAM
    /\ poll.pulls = 1 /\ poll.raw_len = 0 /\ ~poll.was_none
    /\ ~window_ready(buffer, buffer_size)
    /\ poll.controls_in.LEFT = 1 /\ poll.controls_in.RIGHT = 1
    /\ controls.LEFT = 0 /\ controls.RIGHT = 0

\* C26 (no terminal state), checked under SpecLive: after any sequence of
\* polls the pipeline takes another poll, of any elapsed time, and has
\* returned a control state; and while polls with positive elapsed time keep
\* arriving, polls that pull from the source occur again and again.
C26_NoTerminalState ==
    /\ [](/\ controls \in ControlStates
          /\ elapsed_since_pull + MaxTick <= MaxElapsed
          /\ stream_update # {})
    /\ []<>(poll.polled /\ poll.pulls = 1)

\* the pipeline has gone round at least twice: a pull found a window that an
\* earlier pull had filled beyond buffer_size, and classified it
C26_Witness ==
    /\ poll.polled /\ poll.pulls = 1 /\ poll.trimmed /\ poll.predicts = 1

\* the last n elements of s
LastOf(s, n) == SubSeq(s, Len(s) - n + 1, Len(s))

\* s without its first n elements, or empty if it has fewer
DropFirst(s, n) == SubSeq(s, Min(n, Len(s)) + 1, Len(s))

\* C27 (trim-then-append step), checked under Spec: in every poll that
\* pulls a chunk, if there was no window the chunk becomes the window;
\* otherwise, if the window was longer than buffer_size, exactly
\* len(chunk) + 1 of its oldest samples (all of them if it had fewer) are
\* dropped and the chunk is appended, and if it was not longer the chunk is
\* appended with nothing dropped; a pull on a window longer than both
\* buffer_size and len(chunk) leaves it exactly one sample shorter.
C27_TrimThenAppend ==
    [][poll'.pulls = 1 =>
         LET raw_data == LastOf(buffer', poll'.raw_len)
         IN  /\ poll'.raw_len <= Len(buffer')
             /\ buffer' =
                  IF buffer_is_none THEN raw_data
                  ELSE IF Len(buffer) > buffer_size
                       THEN DropFirst(buffer, poll'.raw_len + 1) \o raw_data
                       ELSE buffer \o raw_data
             /\ (~buffer_is_none /\ Len(buffer) > buffer_size
                    /\ Len(buffer) > poll'.raw_len)
                => Len(buffer') = Len(buffer) - 1
      ]_vars

\* a pull found a window longer than buffer_size and than the chunk, dropped
\* len(chunk) + 1 samples of it and kept the rest in front of the chunk
C27_Witness ==
    /\ poll.pulls = 1 /\ ~poll.was_none /\ poll.trimmed
    /\ poll.raw_len >= 1 /\ poll.kept_len >= 1
    /\ Len(buffer) = poll.kept_len + poll.raw_len

\* whether s is the sequence of the last Len(s) elements of t
IsSuffix(s, t) ==
    /\ Len(s) <= Len(t)
    /\ s = SubSeq(t, Len(t) - Len(s) + 1, Len(t))

\* C28 (the window is a contiguous suffix of the sample stream), checked
\* under SpecWindow: after any sequence of pulls the window equals the most
\* recent len(window) samples of the concatenation of all chunks pulled so
\* far, in their original order.
C28_WindowIsSuffix ==
    IF buffer_is_none THEN history = <<>> ELSE IsSuffix(buffer, history)

\* a third or later pull: the window has been trimmed, it holds samples of
\* more than one chunk, and it is shorter than what has been pulled
C28_Witness ==
    /\ poll.pulls = 1 /\ poll.trimmed
    /\ poll.kept_len >= 1 /\ poll.raw_len >= 1
    /\ Len(buffer) < Len(history)
    /\ IsSuffix(buffer, history)

\* C31 (replay always reaches classification), checked under
\* SpecReplayLive: with a replay source over a non-empty array and a
\* positive slice length, while polls with positive elapsed time keep
\* arriving, polls whose window is ready and which invoke the classifier
\* occur again and again.
C31_ReplayReachesClassification ==
    []<>(/\ poll.pulls = 1 /\ poll.predicts = 1
         /\ window_ready(buffer, buffer_size))

\* a replay slice shorter than the window bound: the window was filled by
\* several pulls, was reduced at least once, and has been classified again
C31_Witness ==
    /\ stream_type \in {ARRAYSTREAM, WAVSTREAM}
    /\ chunk <= buffer_size
    /\ poll.pulls = 1 /\ poll.predicts = 1 /\ ~poll.trimmed /\ ~poll.was_none
    /\ pointer = 0 /\ Len(buffer) > Len(array)

\* C32 as stated (readiness is stable after warm-up), checked under
\* SpecSteady: with a source that returns a chunk of the same positive
\* length on every pull, once one pull has produced a ready window every
\* later pull produces a ready window too.
C32_ReadinessStable ==
    \A j, k \in 1..Len(window_lens) :
        (j < k /\ window_lens[j] > buffer_size) => window_lens[k] > buffer_size

\* C32 amended: with a source that returns a chunk of the same positive
\* length c on every pull, a pull on a ready window of length L leaves a
\* window of length L - 1 (of length c if L <= c + 1), which is ready only
\* if it is still longer than buffer_size; a pull on a window that is not
\* ready, once some window has been ready, leaves a ready window: after
\* warm-up a classification is skipped now and then, but never on two
\* pulls in a row.
C32_ReadinessLapses ==
    /\ poll.pulls = 1 => poll.raw_len = chunk
    /\ \A j \in 1..(Len(window_lens) - 1) :
          /\ window_lens[j] > buffer_size =>
                window_lens[j + 1] = IF window_lens[j] > chunk + 1
                                     THEN window_lens[j] - 1 ELSE chunk
          /\ (/\ window_lens[j] <= buffer_size
              /\ \E m \in 1..(j - 1) : window_lens[m] > buffer_size)
             => window_lens[j + 1] > buffer_size

\* a window became ready, the next pull left it at buffer_size or below,
\* and the pull after that made it ready again
C32_Witness ==
    \E j \in 1..(Len(window_lens) - 2) :
        /\ window_lens[j] > buffer_size
        /\ window_lens[j + 1] <= buffer_size
        /\ window_lens[j + 2] > buffer_size

\* C34 as stated (an empty chunk does not disturb the window), checked
\* under Spec: a pull for which the source returns zero samples leaves the
\* window contents and length exactly as they were before the pull.
C34_EmptyChunkKeepsWindow ==
    [][(poll'.pulls = 1 /\ poll'.raw_len = 0) => buffer' = buffer]_vars

\* C34 amended: a pull for which the source returns zero samples leaves the
\* window as it was when the window holds at most buffer_size samples (on
\* the first pull the unset window becomes the empty window); when the
\* window holds more than buffer_size samples the pull removes its oldest
\* sample and keeps the others in order.
C34_EmptyChunkDropsOldest ==
    [][(poll'.pulls = 1 /\ poll'.raw_len = 0) =>
          /\ buffer' = IF ~buffer_is_none /\ Len(buffer) > buffer_size
                       THEN Tail(buffer) ELSE buffer
          /\ ~buffer_is_none']_vars

\* a pull returned no sample and took the oldest sample off a window that
\* was longer than buffer_size
C34_Witness ==
    /\ poll.pulls = 1 /\ poll.raw_len = 0
    /\ poll.trimmed /\ ~poll.was_none
    /\ Len(buffer) = buffer_size

\* C35 (a gated poll changes nothing but the timer), checked under Spec:
\* on a poll where the accumulated time stays below buffer_time,
\* process_input does not call the source and does not invoke the
\* classifier, leaves the window and the replay pointer unchanged, adds the
\* elapsed time to the timer, and returns the control state with every
\* flag exactly as passed in.
C35_GatedPollFrame ==
    [][LET tick == poll'.acc - elapsed_since_pull
       IN  buffer_timer + tick < buffer_time =>
              /\ poll'.pulls = 0 /\ poll'.predicts = 0
              /\ buffer' = buffer /\ buffer_is_none' = buffer_is_none
              /\ pointer' = pointer
              /\ buffer_timer' = buffer_timer + tick
              /\ controls' = poll'.controls_in]_vars

\* a gated poll between two pulls of a replay stream, with LEFT and SHOOT
\* passed in and returned
C35_Witness ==
    /\ poll.polled /\ poll.pulls = 0
    /\ ~buffer_is_none /\ pointer > 0
    /\ 0 < buffer_timer /\ buffer_timer < buffer_time
    /\ poll.controls_in.LEFT = 1 /\ poll.controls_in.SHOOT = 1
    /\ controls = poll.controls_in

\* C36 (timer bound), checked under Spec: after every poll with a
\* non-negative elapsed time 0 <= buffer_timer < buffer_time (both in
\* milliseconds); a poll pulls at most one chunk however large the elapsed
\* time is, and the time beyond the threshold at a pulling poll is
\* discarded: the timer is 0 after a pull, and otherwise the old timer
\* plus the elapsed time.
C36_TimerBound ==
    /\ [](/\ 0 <= buffer_timer /\ buffer_timer < buffer_time
          /\ poll.pulls \in {0, 1}
          /\ poll.pulls = 1 => buffer_timer = 0)
    /\ [][LET tick == poll'.acc - elapsed_since_pull
          IN  /\ tick \in 0..MaxTick
              /\ buffer_timer' = IF buffer_timer + tick < buffer_time
                                 THEN buffer_timer + tick ELSE 0
              /\ pointer' \in {pointer, pointer + chunk, 0}]_vars

\* a pull at a poll whose accumulated time went beyond buffer_time: the
\* excess is gone
C36_Witness ==
    /\ poll.pulls = 1
    /\ poll.acc > buffer_time
    /\ buffer_timer = 0

-----------------------------------------------------------------------------
(* Claims about SpikerBox.__init__, checked under SpecConstruct *)

\* C21 (invalid configuration is fatal at construction): a call of
\* SpikerBox.__init__ with a model_type that is not a key of MODELS or with
\* an unrecognised stream_type never returns an object: from its first
\* statement on it has polled nothing, it holds no open source, and it does
\* not reach the return; once it has ended, it ended by raising.
C21_InvalidConfigurationFatal ==
    (ctor.model_type = "Unknown" \/ ctor.stream_type = "Unknown") =>
        /\ ctor.pc # "returned" /\ ctor.pc # "set_fields"
        /\ ~poll.polled
        /\ ~device.is_open
        /\ (ctor.pc = "raised" => ctor.raised \in {"KeyError", "SystemExit"})

\* an unknown model with a serial stream whose port would open has raised
\* KeyError, and elsewhere an unknown stream type has ended in sys.exit()
C21_Witness ==
    /\ ctor.pc = "raised"
    /\ \/ /\ ctor.model_type = "Unknown" /\ ctor.stream_type = SPIKERSTREAM
          /\ ctor.port_ok /\ ctor.raised = "KeyError"
       \/ /\ ctor.model_type # "Unknown" /\ ctor.stream_type = "Unknown"
          /\ ctor.raised = "SystemExit"

\* no flag of the control state is set
AllClear(c) == c.LEFT = 0 /\ c.RIGHT = 0 /\ c.SHOOT = 0

\* C25 (control flags are transient in the Game loop): whenever a
\* Game.update() has run to its end LEFT, RIGHT and SHOOT are all 0; every
\* control state handed to the pipeline has LEFT = RIGHT = 0; and when the
\* player moves in a frame whose input came from the pipeline, that frame's
\* poll classified "left" or "right" and the move is exactly one lane.
C25_FlagsTransient ==
    /\ [](/\ (game.step = "tick" => AllClear(controls))
          /\ (poll.polled => AllClear(poll.controls_in)))
    /\ [][(game'.player_x # game.player_x /\ game.last_input = "spikerbox")
            => /\ poll.pulls = 1 /\ poll.label \in {"left", "right"}
               /\ Abs(game'.player_x - game.player_x) = PLAYER_LANE_OFFSET]_vars

\* a frame whose poll classified "left" has ended: the player stands one
\* lane left of the spawn lane and every flag is 0 again
C25_Witness ==
    /\ game.status = "running" /\ game.step = "tick"
    /\ game.last_input = "spikerbox"
    /\ poll.pulls = 1 /\ poll.label = "left"
    /\ game.player_x = PLAYER_SPAWN_X - PLAYER_LANE_OFFSET
    /\ AllClear(controls)

-----------------------------------------------------------------------------
(* Claims about normalise_signal, checked under SpecNormalise *)

\* a signal whose samples are all equal
IsFlat(signal) == \A k \in 1..Len(signal) : signal[k] = signal[1]

\* C23 (degenerate normalisation is guarded): when a window long enough to
\* be classified is flat, so that the largest absolute centred value is 0,
\* normalise_signal performs no division by zero and every value it returns
\* is a number.
C23_NoDivisionByZero ==
    (norm.called /\ IsFlat(norm.signal)
        /\ window_ready(norm.signal, buffer_size))
    => /\ ~norm.zero_division
       /\ \A k \in 1..Len(norm.values) : ~IsNan(norm.values[k])

\* the sum of a sequence of fractions over one common denominator is 0
SumIsZero(values) ==
    SeqSum([k \in 1..Len(values) |->
               values[k].num * (values[1].den \div values[k].den)]) = 0

\* C24 (normalisation range): for every signal that is not constant,
\* normalise_signal returns a signal of the same length whose mean is 0 and
\* whose largest absolute value is exactly 1.
C24_NormalisationRange ==
    (norm.called /\ ~IsFlat(norm.signal)) =>
        /\ Len(norm.values) = Len(norm.signal)
        /\ \A k \in 1..Len(norm.values) :
              /\ ~IsNan(norm.values[k])
              /\ norm.values[k].den = norm.values[1].den
              /\ Abs(norm.values[k].num) <= norm.values[k].den
        /\ \E k \in 1..Len(norm.values) :
              Abs(norm.values[k].num) = norm.values[k].den
        /\ SumIsZero(norm.values)

\* a signal whose largest centred value is positive but smaller than the
\* size of its most negative one has been normalised
C24_Witness ==
    /\ norm.called /\ ~IsFlat(norm.signal)
    /\ Len(norm.signal) >= 3
    /\ \E k \in 1..Len(norm.values) :
          norm.values[k].num = -(norm.values[k].den)
    /\ \A k \in 1..Len(norm.values) :
          norm.values[k].num < norm.values[k].den

-----------------------------------------------------------------------------
(* Claims about the two SpikerStream classes, checked under SpecRead *)

\* C30 (device read size matches the timeout): in both SpikerStream
\* classes every update() asks the serial handle for exactly `chunk` bytes,
\* chunk being the constructor argument, and the read timeout is
\* chunk / 20000 seconds of that same argument.
C30_ReadSizeMatchesTimeout ==
    /\ device.timeout = [num |-> device.chunk_arg, den |-> CHUNK_UNIT_TIME]
    /\ (device.reads > 0 => device.requested = device.chunk_arg)

-----------------------------------------------------------------------------
(* Claims about the recorder, checked under SpecSaver *)

\* C37 as stated (recording preserves acquisition order): the array written
\* by the saver is the concatenation of the chunks returned by successive
\* update() calls in the order they were acquired, earliest chunk first,
\* for any number of chunks recorded.
C37_RecordingInAcquisitionOrder ==
    device.saver = "saved" => device.saved = history

=============================================================================
